---- MODULE Spec2Model ----
(***************************************************************************)
(* The Viewport of packages/math: the view state (a Transform x, y, k, r   *)
(* and the screen dimensions) and the conversion between Lon/Lat and       *)
(* screen coordinates by the Web Mercator projection.                      *)
(*                                                                         *)
(* Numbers are fixed-point integers and the arithmetic is exact on them:   *)
(*   screen lengths   in units of 1/PX pixel                               *)
(*   radians          in units of PI/12800   (PI == 12800)                 *)
(*   degrees          in units of 180/6400 degree (180 degrees == 6400)    *)
(*   the scale k      in units of 128/PI pixel per radian, which is MIN_K  *)
(* so that a length in radian units times k is a length in screen units.   *)
(* A JavaScript value that may be missing is a tuple: <<>> is undefined,   *)
(* <<n>> the number n.                                                     *)
(***************************************************************************)
EXTENDS Integers, Sequences, FiniteSets, TLC

\* ---------------------------------------------------------------- units

\* Screen units per pixel.
PX == 100

\* ./constants: PI, HALF_PI, TAU in radian units.
PI == 12800
HALF_PI == 6400
TAU == 25600

\* ./constants: radian units per degree unit; x * RAD2DEG is x \div DEG2RAD.
DEG2RAD == 2

\* ./constants: the scale of zoom 0 and of zoom 24 (256 * 2^z / TAU).
MIN_K == 1
MAX_K == 16777216

\* 256 / Math.PI, the scale of zoom 1, in units of MIN_K.
DEFAULT_K == 2

\* One step of the Mercator table: PI/4.
MercStep == 3200

\* ./constants: MAX_PHI = 2 atan(exp(PI)) - HALF_PI, 85.0511 degrees.
MAX_PHI == 6048
MIN_PHI == -6048

\* project and unproject are called at scales up to this one: at a larger
\* scale the screen coordinates no longer fit 32-bit integers.
MaxProjK == 3

\* ------------------------------------------------------ JavaScript values

Undefined == <<>>

IsUndefined(v) == Len(v) = 0

\* v || d for a number that may be missing: 0 and undefined are falsy.
OrElse(v, d) == IF Len(v) = 0 \/ v[1] = 0 THEN d ELSE v[1]

\* The remainder a % d of JavaScript: it has the sign of a.
JsRem(a, d) == IF a >= 0 THEN a % d ELSE -((-a) % d)

Max(a, b) == IF a >= b THEN a ELSE b

Min(a, b) == IF a <= b THEN a ELSE b

\* Math.abs
Abs(a) == IF a >= 0 THEN a ELSE -a

\* Math.ceil of a screen length: the next whole pixel.
Ceil(a) == ((a + PX - 1) \div PX) * PX

\* ------------------------------------------------- ./number and ./vector

\* numClamp(num, min, max) = Math.max(min, Math.min(num, max))
numClamp(num, min, max) == Max(min, Min(num, max))

\* numWrap(num, min, max) = ((num - min) % d + d) % d + min, d = max - min
numWrap(num, min, max) ==
  LET d == max - min
  IN JsRem(JsRem(num - min, d) + d, d) + min

\* vecScale(a, n) for the factor n = num/den
vecScale(a, num, den) == <<(a[1] * num) \div den, (a[2] * num) \div den>>

\* vecCeil(a)
vecCeil(a) == <<Ceil(a[1]), Ceil(a[2])>>

\* 5 * Math.sin(a) and 5 * Math.cos(a) at the twelve angles where both are
\* whole: the multiples of PI/2 and the 3-4-5 angles between them.
SinCos5 ==
  [a \in {0, 2622, 3778, 6400, 9022, 10178, 12800, 15422, 16578, 19200, 21822, 22978} |->
     CASE a = 0     -> <<0, 5>>
       [] a = 2622  -> <<3, 4>>
       [] a = 3778  -> <<4, 3>>
       [] a = 6400  -> <<5, 0>>
       [] a = 9022  -> <<4, -3>>
       [] a = 10178 -> <<3, -4>>
       [] a = 12800 -> <<0, -5>>
       [] a = 15422 -> <<-3, -4>>
       [] a = 16578 -> <<-4, -3>>
       [] a = 19200 -> <<-5, 0>>
       [] a = 21822 -> <<-4, 3>>
       [] a = 22978 -> <<-3, 4>>]

Sin5(a) == SinCos5[a % TAU][1]

Cos5(a) == SinCos5[a % TAU][2]

\* vecRotate(a, angle, around)
vecRotate(a, angle, around) ==
  LET dx == a[1] - around[1]
      dy == a[2] - around[2]
      cos == Cos5(angle)
      sin == Sin5(angle)
  IN <<(dx * cos - dy * sin) \div 5 + around[1],
       (dx * sin + dy * cos) \div 5 + around[2]>>

\* ------------------------------------------------------------- Mercator

\* 2 atan(exp(n PI/4)) - HALF_PI for n = -4 .. 4, in radian units.
GdKnot(n) == <<-6048, -5630, -4730, -2914, 0, 2914, 4730, 5630, 6048>>[n + 5]

\* Math.log(Math.tan((HALF_PI + phi) / 2)) for MIN_PHI <= phi <= MAX_PHI:
\* exact at the table's latitudes, linear between them.
MercatorY(phi) ==
  IF phi >= GdKnot(4) THEN 4 * MercStep
  ELSE LET n == CHOOSE i \in -4 .. 3 : GdKnot(i) <= phi /\ phi < GdKnot(i + 1)
       IN n * MercStep + ((phi - GdKnot(n)) * MercStep) \div (GdKnot(n + 1) - GdKnot(n))

\* 2 * Math.atan(Math.exp(mercatorY)) - HALF_PI for -PI <= mercatorY <= PI:
\* exact at the multiples of PI/4, linear between them.
InvMercatorY(mercatorY) ==
  LET n == mercatorY \div MercStep
      f == mercatorY - n * MercStep
  IN IF n >= 4 THEN GdKnot(4)
     ELSE GdKnot(n) + (f * (GdKnot(n + 1) - GdKnot(n))) \div MercStep

\* --------------------------------------------------------------- Extent

\* new Extent(): no corner yet.
EmptyExtent == [empty |-> TRUE, min |-> <<0, 0>>, max |-> <<0, 0>>]

\* extent.extendSelf(point)
extendSelf(e, p) ==
  IF e.empty THEN [empty |-> FALSE, min |-> p, max |-> p]
  ELSE [empty |-> FALSE,
        min |-> <<Min(e.min[1], p[1]), Min(e.min[2], p[2])>>,
        max |-> <<Max(e.max[1], p[1]), Max(e.max[2], p[2])>>]

\* ---------------------------------------------------------------- state

VARIABLES
  transform,    \* _transform: [x, y, k, r]
  dimensions,   \* _dimensions: <<w, h>>
  dimsShared,   \* the caller holds a reference to the array in _dimensions
  expect,       \* what the last writes to each field should have left
  op,           \* the last call and its arguments
  ret           \* what the last call returned

vars == <<transform, dimensions, dimsShared, expect, op, ret>>

\* A Vec2 argument: undefined, null or an array of two numbers.
NoVec == [t |-> "undefined", v |-> <<>>]

NullVec == [t |-> "null", v |-> <<>>]

Vec(a, b) == [t |-> "vec", v |-> <<a, b>>]

\* A transform argument: undefined, null or an object, each of whose
\* fields x, y, k, r may be missing.
NoObj == [t |-> "undefined", x |-> <<>>, y |-> <<>>, k |-> <<>>, r |-> <<>>]

NullObj == [t |-> "null", x |-> <<>>, y |-> <<>>, k |-> <<>>, r |-> <<>>]

Obj(x, y, k, r) == [t |-> "obj", x |-> x, y |-> y, k |-> k, r |-> r]

\* Return values.
This == [t |-> "this", v |-> <<>>]

Threw == [t |-> "throw", v |-> <<>>]

Value(t, v) == [t |-> t, v |-> v]

\* ----------------------------------------------------------- constructor

\* transform?.f
OptField(obj, f) == IF obj.t = "obj" THEN obj[f] ELSE Undefined

\* constructor(transform?, dimensions?): the state it leaves.
Constructor(t, d) ==
  /\ transform = [x |-> OrElse(OptField(t, "x"), 0),
                  y |-> OrElse(OptField(t, "y"), 0),
                  k |-> numClamp(OrElse(OptField(t, "k"), DEFAULT_K), MIN_K, MAX_K),
                  r |-> numWrap(OrElse(OptField(t, "r"), 0), 0, TAU)]
  /\ dimensions = IF d.t = "vec" THEN d.v ELSE <<0, 0>>
  /\ dimsShared = (d.t = "vec")
  /\ ret = This

\* ------------------------------------------------------- pure operations

\* project(loc, includeRotation)
project(loc, includeRotation) ==
  LET x == transform.x
      y == transform.y
      k == transform.k
      r == transform.r
      lambda == loc[1] * DEG2RAD
      phi == numClamp(loc[2] * DEG2RAD, MIN_PHI, MAX_PHI)
      mercatorX == lambda
      mercatorY == MercatorY(phi)
      point == <<mercatorX * k + x, y - mercatorY * k>>
  IN IF includeRotation /\ r # 0
     THEN vecRotate(point, r, vecScale(dimensions, 1, 2))
     ELSE point

\* unproject with the rotation undone by r instead of -r.
unprojectSameTurn(point, includeRotation) ==
  LET x == transform.x
      y == transform.y
      k == transform.k
      r == transform.r
      pt == IF includeRotation /\ r # 0
            THEN vecRotate(point, r, vecScale(dimensions, 1, 2))
            ELSE point
      mercatorX == (pt[1] - x) \div k
      mercatorY == numClamp((y - pt[2]) \div k, -PI, PI)
  IN <<mercatorX \div DEG2RAD, InvMercatorY(mercatorY) \div DEG2RAD>>

\* unproject(point, includeRotation)
unproject(point, includeRotation) ==
  LET x == transform.x
      y == transform.y
      k == transform.k
      r == transform.r
      pt == IF includeRotation /\ r # 0
            THEN vecRotate(point, -r, vecScale(dimensions, 1, 2))
            ELSE point
      mercatorX == (pt[1] - x) \div k
      mercatorY == numClamp((y - pt[2]) \div k, -PI, PI)
      lambda == mercatorX
      phi == InvMercatorY(mercatorY)
  IN <<lambda \div DEG2RAD, phi \div DEG2RAD>>

\* center()
center == vecScale(dimensions, 1, 2)

\* visiblePolygon()
visiblePolygon ==
  LET w == dimensions[1]
      h == dimensions[2]
      r == transform.r
      sinr == Abs(Sin5(r))
      cosr == Abs(Cos5(r))
      ae == (w * sinr) \div 5
      af == (h * cosr) \div 5
      ex == (ae * sinr) \div 5
      ey == (ae * cosr) \div 5
      fx == (af * sinr) \div 5
      fy == (af * cosr) \div 5
      E == <<ex, -ey>>
      F == <<-fx, fy>>
      G == <<w - ex, h + ey>>
      H == <<w + fx, h - fy>>
  IN IF r # 0
     THEN <<E, F, G, H, E>>
     ELSE <<<<0, 0>>, <<0, h>>, <<w, h>>, <<0, w>>, <<0, 0>>>>

\* visibleDimensions without Math.abs.
visibleDimensionsSigned ==
  LET w == dimensions[1]
      h == dimensions[2]
      r == transform.r
      w2 == (w * Cos5(r) + h * Sin5(r)) \div 5
      h2 == (h * Cos5(r) + w * Sin5(r)) \div 5
  IN IF r # 0 THEN vecCeil(<<w2, h2>>) ELSE <<w, h>>

\* visibleDimensions()
visibleDimensions ==
  LET w == dimensions[1]
      h == dimensions[2]
      r == transform.r
      sinr == Abs(Sin5(r))
      cosr == Abs(Cos5(r))
      w2 == (w * cosr + h * sinr) \div 5
      h2 == (h * cosr + w * sinr) \div 5
  IN IF r # 0 THEN vecCeil(<<w2, h2>>) ELSE <<w, h>>

\* visibleCenter()
visibleCenter == vecScale(visibleDimensions, 1, 2)

\* extent(): the loop over the polygon's first length - 1 points.
RECURSIVE extentLoop(_, _, _)
extentLoop(polygon, i, e) ==
  IF i > Len(polygon) - 1 THEN e
  ELSE extentLoop(polygon, i + 1, extendSelf(e, unproject(polygon[i], TRUE)))

extent == extentLoop(visiblePolygon, 1, EmptyExtent)

\* -------------------------------------------------------------- accessors

\* translate(val)
translate(val) ==
  IF val.t = "undefined"
  THEN /\ ret' = Value("vec", <<transform.x, transform.y>>)
       /\ UNCHANGED <<transform, dimensions, dimsShared>>
  ELSE IF val.t = "null"
  THEN /\ ret' = Threw                      \* val[0] of null
       /\ UNCHANGED <<transform, dimensions, dimsShared>>
  ELSE /\ transform' = [transform EXCEPT !.x = val.v[1], !.y = val.v[2]]
       /\ ret' = This
       /\ UNCHANGED <<dimensions, dimsShared>>

\* scale without numClamp.
scaleUnclamped(val) ==
  IF IsUndefined(val)
  THEN /\ ret' = Value("num", <<transform.k>>)
       /\ UNCHANGED <<transform, dimensions, dimsShared>>
  ELSE /\ transform' = [transform EXCEPT !.k = val[1]]
       /\ ret' = This
       /\ UNCHANGED <<dimensions, dimsShared>>

\* scale(val)
scale(val) ==
  IF IsUndefined(val)
  THEN /\ ret' = Value("num", <<transform.k>>)
       /\ UNCHANGED <<transform, dimensions, dimsShared>>
  ELSE /\ transform' = [transform EXCEPT !.k = numClamp(val[1], MIN_K, MAX_K)]
       /\ ret' = This
       /\ UNCHANGED <<dimensions, dimsShared>>

\* rotate(val)
rotate(val) ==
  IF IsUndefined(val)
  THEN /\ ret' = Value("num", <<transform.r>>)
       /\ UNCHANGED <<transform, dimensions, dimsShared>>
  ELSE /\ transform' = [transform EXCEPT !.r = numWrap(val[1], 0, TAU)]
       /\ ret' = This
       /\ UNCHANGED <<dimensions, dimsShared>>

\* transform that, like the constructor, gives a missing field its default.
transformReplacing(obj) ==
  IF obj.t = "undefined"
  THEN /\ ret' = Value("transform", <<transform.x, transform.y, transform.k, transform.r>>)
       /\ UNCHANGED <<transform, dimensions, dimsShared>>
  ELSE IF obj.t = "null"
  THEN /\ ret' = Threw
       /\ UNCHANGED <<transform, dimensions, dimsShared>>
  ELSE /\ transform' =
            [x |-> OrElse(obj.x, 0),
             y |-> OrElse(obj.y, 0),
             k |-> numClamp(OrElse(obj.k, DEFAULT_K), MIN_K, MAX_K),
             r |-> numWrap(OrElse(obj.r, 0), 0, TAU)]
       /\ ret' = This
       /\ UNCHANGED <<dimensions, dimsShared>>

\* transform(obj)
transformOf(obj) ==
  IF obj.t = "undefined"
  THEN /\ ret' = Value("transform", <<transform.x, transform.y, transform.k, transform.r>>)
       /\ UNCHANGED <<transform, dimensions, dimsShared>>
  ELSE IF obj.t = "null"
  THEN /\ ret' = Threw                      \* obj.x of null
       /\ UNCHANGED <<transform, dimensions, dimsShared>>
  ELSE /\ transform' =
            [x |-> IF ~IsUndefined(obj.x) THEN obj.x[1] ELSE transform.x,
             y |-> IF ~IsUndefined(obj.y) THEN obj.y[1] ELSE transform.y,
             k |-> IF ~IsUndefined(obj.k) THEN numClamp(obj.k[1], MIN_K, MAX_K) ELSE transform.k,
             r |-> IF ~IsUndefined(obj.r) THEN numWrap(obj.r[1], 0, TAU) ELSE transform.r]
       /\ ret' = This
       /\ UNCHANGED <<dimensions, dimsShared>>

\* dimensions(val): the getter returns the array itself, the setter stores
\* a new one.
dimensionsOf(val) ==
  IF val.t = "undefined"
  THEN /\ ret' = Value("vec", dimensions)
       /\ dimsShared' = TRUE
       /\ UNCHANGED <<transform, dimensions>>
  ELSE IF val.t = "null"
  THEN /\ ret' = Threw                      \* val[0] of null
       /\ UNCHANGED <<transform, dimensions, dimsShared>>
  ELSE /\ dimensions' = vecCeil(val.v)
       /\ dimsShared' = FALSE
       /\ ret' = This
       /\ UNCHANGED transform

\* A call that only reads: it returns v.
Reads(t, v) ==
  /\ ret' = Value(t, v)
  /\ UNCHANGED <<transform, dimensions, dimsShared>>

\* ---------------------------------------------------------------- calls

\* What each field's last write should have left, by the accessors'
\* contract: the value written, clamped, wrapped or rounded up.
ExpectInit ==
  expect = [x |-> transform.x, y |-> transform.y, k |-> transform.k,
            r |-> transform.r, dims |-> dimensions]

Written(name, arg) ==
  CASE name = "translate" /\ arg.t = "vec" ->
         [expect EXCEPT !.x = arg.v[1], !.y = arg.v[2]]
    [] name = "scale" /\ ~IsUndefined(arg) ->
         [expect EXCEPT !.k = numClamp(arg[1], MIN_K, MAX_K)]
    [] name = "rotate" /\ ~IsUndefined(arg) ->
         [expect EXCEPT !.r = numWrap(arg[1], 0, TAU)]
    [] name = "transform" /\ arg.t = "obj" ->
         [x |-> IF IsUndefined(arg.x) THEN expect.x ELSE arg.x[1],
          y |-> IF IsUndefined(arg.y) THEN expect.y ELSE arg.y[1],
          k |-> IF IsUndefined(arg.k) THEN expect.k ELSE numClamp(arg.k[1], MIN_K, MAX_K),
          r |-> IF IsUndefined(arg.r) THEN expect.r ELSE numWrap(arg.r[1], 0, TAU),
          dims |-> expect.dims]
    [] name = "dimensions" /\ arg.t = "vec" ->
         [expect EXCEPT !.dims = vecCeil(arg.v)]
    [] OTHER -> expect

Called(name, arg) ==
  /\ op' = [name |-> name, arg |-> arg]
  /\ expect' = Written(name, arg)

Translate(val) == translate(val) /\ Called("translate", val)

Scale(val) == scale(val) /\ Called("scale", val)

Rotate(val) == rotate(val) /\ Called("rotate", val)

Transform(obj) == transformOf(obj) /\ Called("transform", obj)

Dimensions(val) == dimensionsOf(val) /\ Called("dimensions", val)

Center == Reads("vec", center) /\ Called("center", <<>>)

VisiblePolygon == Reads("polygon", visiblePolygon) /\ Called("visiblePolygon", <<>>)

VisibleDimensions == Reads("vec", visibleDimensions) /\ Called("visibleDimensions", <<>>)

VisibleCenter == Reads("vec", visibleCenter) /\ Called("visibleCenter", <<>>)

Extent == Reads("extent", <<extent.min, extent.max>>) /\ Called("extent", <<>>)

Project(loc, includeRotation) ==
  /\ transform.k <= MaxProjK
  /\ Reads("vec", project(loc, includeRotation))
  /\ Called("project", [loc |-> loc, rot |-> includeRotation])

\* unproject(point, includeRotation); `of` is the loc the point was
\* projected from, <<>> when the point is the caller's own.
Unproject(point, includeRotation, of) ==
  /\ Reads("vec", unproject(point, includeRotation))
  /\ Called("unproject", [point |-> point, rot |-> includeRotation, of |-> of])

\* The caller writes into the array it shares with the Viewport.
WriteShared(v) ==
  /\ dimsShared
  /\ dimensions' = v
  /\ ret' = IF op.name = "dimensions" /\ ret.t = "vec" THEN Value("vec", v) ELSE ret
  /\ op' = [name |-> "write", arg |-> v]
  /\ UNCHANGED <<transform, dimsShared, expect>>

\* The caller writes into a value a getter returned as a copy.
WriteCopy(v) ==
  /\ op.name \in {"translate", "transform"}
  /\ ret.t \in {"vec", "transform"}
  /\ ret' = Value(ret.t, [i \in DOMAIN ret.v |-> v])
  /\ op' = [name |-> "writeCopy", arg |-> v]
  /\ UNCHANGED <<transform, dimensions, dimsShared, expect>>

\* --------------------------------------------------------------- inputs

\* Screen lengths: 20 and 10 pixels, 128 and 64 pixels, 64.5 and 32.5.
Translations == {Vec(0, 0), Vec(20 * PX, 10 * PX)}

Sizes == {Vec(128 * PX, 64 * PX), Vec(64 * PX, 128 * PX), Vec(6450, 3250)}

\* Scales: negative, zero, zoom 0, the largest the projection is applied
\* at, above zoom 24.
Scales == {<<-1>>, <<0>>, <<MIN_K>>, <<MaxProjK>>, <<MAX_K + 1>>}

\* Rotations: the 3-4-5 angles, a quarter turn, a negative quarter turn,
\* a whole turn, more than a whole turn.
Rotations == {<<0>>, <<2622>>, <<HALF_PI>>, <<-HALF_PI>>, <<TAU>>, <<TAU + 3778>>}

\* Transform objects: empty, partial and whole.
Objects ==
  { Obj(<<>>, <<>>, <<>>, <<>>),
    Obj(<<20 * PX>>, <<>>, <<>>, <<>>),
    Obj(<<>>, <<10 * PX>>, <<MAX_K + 1>>, <<>>),
    Obj(<<>>, <<>>, <<0>>, <<HALF_PI>>),
    Obj(<<>>, <<>>, <<-1>>, <<TAU>>),
    Obj(<<>>, <<>>, <<>>, <<-2622>>),
    Obj(<<20 * PX>>, <<10 * PX>>, <<3>>, <<2622>>) }

\* Lon/Lat in degree units: 0, 90 and -180 degrees of longitude; the
\* table's latitudes, the clamp's edge and the pole.
Lons == {0, 3200, -6400}

Lats == {0, 1457, -2365, 2815, 3024, -3200}

\* The locations the caller projects: inside the clamp's range, and the pole.
Locs == {<<0, 0>>, <<3200, 1457>>, <<-6400, -2365>>, <<3200, 2815>>, <<3200, -3200>>}

\* The latitudes strictly inside the clamp's range.
Inside(loc) == MIN_PHI < loc[2] * DEG2RAD /\ loc[2] * DEG2RAD < MAX_PHI

\* The caller's own screen points: the origin and [256, 256] pixels.
Points == {<<0, 0>>, <<256 * PX, 256 * PX>>}

\* --------------------------------------------------------- specification

Init ==
  \E t \in {NoObj} \cup Objects, d \in {NoVec} \cup Sizes :
    /\ Constructor(t, d)
    /\ op = [name |-> "constructor", arg |-> t]
    /\ ExpectInit

Setters ==
  \/ \E val \in Translations : Translate(val)
  \/ \E val \in Scales : Scale(val)
  \/ \E val \in Rotations : Rotate(val)
  \/ \E obj \in Objects : Transform(obj)
  \/ \E val \in Sizes : Dimensions(val)

Getters ==
  \/ Translate(NoVec)
  \/ Scale(Undefined)
  \/ Rotate(Undefined)
  \/ Transform(NoObj)
  \/ Dimensions(NoVec)

Queries ==
  \/ Center
  \/ VisiblePolygon
  \/ VisibleDimensions
  \/ VisibleCenter
  \/ Extent
  \/ \E loc \in Locs, rot \in BOOLEAN : Project(loc, rot)
  \/ \E point \in Points, rot \in BOOLEAN : Unproject(point, rot, <<>>)
  \/ /\ op.name = "project"
     /\ Unproject(ret.v, op.arg.rot, op.arg.loc)

Next == Setters \/ Getters \/ Queries

\* The Viewport under calls with arguments of the declared types.
Spec == Init /\ [][Next]_vars

\* The same, and null where an argument is expected.
InitAny ==
  \E t \in {NoObj, NullObj} \cup Objects, d \in {NoVec, NullVec} \cup Sizes :
    /\ Constructor(t, d)
    /\ op = [name |-> "constructor", arg |-> t]
    /\ ExpectInit

NullCalls ==
  \/ Translate(NullVec)
  \/ Transform(NullObj)
  \/ Dimensions(NullVec)

NextAny == Next \/ NullCalls

SpecAny == InitAny /\ [][NextAny]_vars

\* The same as Spec, and a caller that writes into the arrays and objects
\* it passed in or got back.
CallerWrites ==
  \/ \E v \in {<<10 * PX, 10 * PX>>, <<5, 7>>} : WriteShared(v)
  \/ WriteCopy(-1)

NextAlias == Next \/ CallerWrites

SpecAlias == Init /\ [][NextAlias]_vars

\* --------------------------------------------------------------- claims

\* C1: in every state the stored scale is within MIN_K .. MAX_K and the
\* stored rotation within 0 .. TAU, TAU excluded.
ScaleAndRotationInRange ==
  /\ MIN_K <= transform.k /\ transform.k <= MAX_K
  /\ 0 <= transform.r /\ transform.r < TAU

\* A negative quarter turn was just set, on a Viewport whose scale an
\* earlier call had set above MAX_K.
RotatedBackAtMaxScale ==
  /\ op.name = "rotate" /\ op.arg = <<-HALF_PI>>
  /\ transform.r = 19200
  /\ transform.k = MAX_K

\* C2: in every state both stored dimensions are whole pixels, the ceiling
\* of what was supplied, after construction as after dimensions(val).
DimensionsAreWhole == dimensions = vecCeil(dimensions)

\* C3: a scale below MIN_K given to the constructor, to scale or to
\* transform leaves k = MIN_K, one above MAX_K leaves k = MAX_K.
GivenScale ==
  CASE op.name \in {"constructor", "transform"} /\ op.arg.t = "obj" -> op.arg.k
    [] op.name = "scale" -> op.arg
    [] OTHER -> <<>>

ScaleClampedAtEveryEntry ==
  ~IsUndefined(GivenScale) =>
    /\ GivenScale[1] < MIN_K => transform.k = MIN_K
    /\ GivenScale[1] > MAX_K => transform.k = MAX_K

\* C4: with r = 0, visiblePolygon() is the ring [0,0], [0,h], [w,h], [w,0],
\* [0,0].
UnrotatedPolygonIsRectangle ==
  transform.r = 0 =>
    visiblePolygon = << <<0, 0>>, <<0, dimensions[2]>>, dimensions,
                        <<dimensions[1], 0>>, <<0, 0>> >>

\* The width and height of the axis-aligned bounding box of a polygon.
BoxSize(polygon) ==
  LET xs == {polygon[i][1] : i \in DOMAIN polygon}
      ys == {polygon[i][2] : i \in DOMAIN polygon}
      hi(S) == CHOOSE a \in S : \A b \in S : b <= a
      lo(S) == CHOOSE a \in S : \A b \in S : a <= b
  IN <<hi(xs) - lo(xs), hi(ys) - lo(ys)>>

\* C5 as claimed: the bounding box of visiblePolygon(), rounded up, is
\* visibleDimensions(), whatever the dimensions and the rotation.
BoundingBoxIsVisibleDimensions ==
  vecCeil(BoxSize(visiblePolygon)) = visibleDimensions

\* v is the whole number of pixels next above the root of sq.
IsCeilOfRoot(v, sq) ==
  /\ v >= 0 /\ v % PX = 0
  /\ v * v >= sq
  /\ v > 0 => (v - PX) * (v - PX) < sq

SquaredLength(a, b) ==
  (a[1] - b[1]) * (a[1] - b[1]) + (a[2] - b[2]) * (a[2] - b[2])

\* C5 as amended: with r # 0, visibleDimensions() is the pair of side
\* lengths |FG|, |EF| of the rectangle E-F-G-H that visiblePolygon()
\* returns, rounded up; with r = 0 it is the stored dimensions.
VisibleDimensionsAreSides ==
  LET polygon == visiblePolygon
  IN IF transform.r # 0
     THEN /\ IsCeilOfRoot(visibleDimensions[1], SquaredLength(polygon[2], polygon[3]))
          /\ IsCeilOfRoot(visibleDimensions[2], SquaredLength(polygon[1], polygon[2]))
     ELSE visibleDimensions = dimensions

\* visibleDimensions() was just called on a [128, 64] pixel screen turned
\* by the angle of sine 3/5: it returned [141, 128] pixels.
SidesOfTurnedScreen ==
  /\ op.name = "visibleDimensions"
  /\ transform.r = 2622
  /\ dimensions = <<128 * PX, 64 * PX>>
  /\ ret.v = <<141 * PX, 128 * PX>>

\* C6: with r = 0, extent() is the box spanned by unproject([0,0]) and
\* unproject([w,h]).
UnrotatedExtentIsScreenBox ==
  LET a == unproject(<<0, 0>>, FALSE)
      b == unproject(dimensions, FALSE)
  IN transform.r = 0 =>
       /\ extent.min = <<a[1], b[2]>>
       /\ extent.max = <<b[1], a[2]>>

\* C7: no call raises an error, whatever its argument.
NoCallThrows == ret.t # "throw"

\* C8: a setter returns the Viewport, each getter returns the normalized
\* value last written to its field, and a write leaves the fields it does
\* not name as they were.
GettersReturnLastWrite ==
  /\ transform = [x |-> expect.x, y |-> expect.y, k |-> expect.k, r |-> expect.r]
  /\ dimensions = expect.dims
  /\ op.name = "translate" =>
       IF op.arg.t = "vec" THEN ret.t = "this" ELSE ret.v = <<expect.x, expect.y>>
  /\ op.name = "scale" =>
       IF ~IsUndefined(op.arg) THEN ret.t = "this" ELSE ret.v = <<expect.k>>
  /\ op.name = "rotate" =>
       IF ~IsUndefined(op.arg) THEN ret.t = "this" ELSE ret.v = <<expect.r>>
  /\ op.name = "transform" =>
       IF op.arg.t = "obj" THEN ret.t = "this"
       ELSE ret.v = <<expect.x, expect.y, expect.k, expect.r>>
  /\ op.name = "dimensions" =>
       IF op.arg.t = "vec" THEN ret.t = "this" ELSE ret.v = expect.dims

\* transform({r: -2622}) was just called on a Viewport whose translation,
\* scale and dimensions earlier calls had set: they are as those left them.
PartialWriteKeepsTheRest ==
  /\ op.name = "transform" /\ op.arg = Obj(<<>>, <<>>, <<>>, <<-2622>>)
  /\ transform = [x |-> 20 * PX, y |-> 10 * PX, k |-> 3, r |-> 22978]
  /\ dimensions = <<65 * PX, 33 * PX>>

\* C9: unproject(project(loc, rot), rot) = loc for every loc whose latitude
\* is strictly inside the clamp's range, with or without the rotation.
RoundTrip ==
  /\ transform.k <= MaxProjK =>
       \A lon \in Lons, lat \in Lats, rot \in BOOLEAN :
         Inside(<<lon, lat>>) =>
           unproject(project(<<lon, lat>>, rot), rot) = <<lon, lat>>
  /\ op.name = "unproject" /\ ~IsUndefined(op.arg.of) /\ Inside(op.arg.of) =>
       ret.v = op.arg.of

\* A point projected with the rotation, on a turned and translated screen,
\* was just unprojected to the loc it came from.
TurnedRoundTrip ==
  /\ op.name = "unproject" /\ op.arg.of = <<3200, 1457>> /\ op.arg.rot
  /\ transform.r = 2622 /\ transform.x = 20 * PX /\ transform.k = 3
  /\ dimensions = <<65 * PX, 33 * PX>>
  /\ op.arg.point # project(<<3200, 1457>>, FALSE)
  /\ ret.v = <<3200, 1457>>

\* C10: the transform and the dimensions are what the constructor and the
\* setters left, whatever the caller does with the values it passed in or
\* got back.
OnlySettersChangeState ==
  /\ transform = [x |-> expect.x, y |-> expect.y, k |-> expect.k, r |-> expect.r]
  /\ dimensions = expect.dims

====
